---- MODULE Spec2Model ----
(***************************************************************************)
(* Model of the telemetry collector in src/analytics/app.py: per-request   *)
(* schema migration and retention purge (before), the anonymization        *)
(* helpers, the two ingestion routes, the dashboard route and the health   *)
(* route.                                                                  *)
(*                                                                         *)
(* Time is counted in ticks, TicksPerDay ticks to a calendar day.  A       *)
(* request is handled within one tick: the clock advances only between     *)
(* requests.  Timestamps are kept as the TEXT the code stores and compares *)
(* (a date, a separator character, a time of day), because SQLite compares *)
(* the ts column with datetime('now', ...) as text.                        *)
(*                                                                         *)
(* Spec is the service from an empty store.  SpecDash serves the dashboard *)
(* over a store filled by earlier requests, SpecSchema starts from any     *)
(* database layout, SpecRace interleaves two requests inside               *)
(* ensure_columns, and SpecAnon, SpecUA and SpecSpark apply one helper to  *)
(* its inputs.                                                             *)
(***************************************************************************)
EXTENDS Integers, Sequences, FiniteSets, TLC

\* ------------------------------------------------------------------ bounds
TicksPerDay == 2
MaxTime == 4
MaxRetention == 2
MaxRows == 2

\* ---------------------------------------------------------------- helpers
\* Python's None / SQL NULL
None == "<null>"

Slice(s, n) == IF Len(s) <= n THEN s ELSE SubSeq(s, 1, n)

Contains(s, needle) ==
    \E i \in 1..(Len(s) - Len(needle) + 1) : SubSeq(s, i, i + Len(needle) - 1) = needle

UpperChars == <<"A","B","C","D","E","F","G","H","I","J","K","L","M",
                "N","O","P","Q","R","S","T","U","V","W","X","Y","Z">>
LowerChars == <<"a","b","c","d","e","f","g","h","i","j","k","l","m",
                "n","o","p","q","r","s","t","u","v","w","x","y","z">>

LowerChar(c) ==
    IF \E i \in 1..26 : UpperChars[i] = c
    THEN LowerChars[CHOOSE i \in 1..26 : UpperChars[i] = c]
    ELSE c

RECURSIVE Lower(_)
Lower(s) == IF Len(s) = 0 THEN "" ELSE LowerChar(SubSeq(s, 1, 1)) \o Lower(SubSeq(s, 2, Len(s)))

\* ------------------------------------------------------------- timestamps
\* A timestamp text is <<date, separator, time of day>>; the date and the
\* time of day are fixed-width in the real text, so they compare as numbers,
\* and the separator compares by its character code.
CharT == 84
CharSpace == 32

\* datetime.now(timezone.utc).isoformat(timespec="seconds"): "YYYY-MM-DDTHH:MM:SS+00:00"
IsoFormat(t) == <<t \div TicksPerDay, CharT, t % TicksPerDay>>

\* SQLite datetime('now', '-N days'): "YYYY-MM-DD HH:MM:SS"
SqliteDatetime(t, minusDays) == <<(t \div TicksPerDay) - minusDays, CharSpace, t % TicksPerDay>>

\* SQLite's text comparison a < b (lexicographic)
TextLess(a, b) ==
    \/ a[1] < b[1]
    \/ a[1] = b[1] /\ a[2] < b[2]
    \/ a[1] = b[1] /\ a[2] = b[2] /\ a[3] < b[3]

\* the instant a stored timestamp text denotes, in ticks
TsTicks(ts) == ts[1] * TicksPerDay + ts[3]

\* ------------------------------------------------------------------ schema
Tables == {"pageviews", "events"}

CreateCols(t) ==
    IF t = "pageviews"
    THEN {"id", "ts", "path", "referrer", "ua_browser", "ua_os", "ip_bucket", "country"}
    ELSE {"id", "ts", "event_type", "page_path", "target", "ua_browser", "ua_os", "ip_bucket", "country"}

ColDefs(t) ==
    IF t = "pageviews"
    THEN <<"ts", "path", "referrer", "ua_browser", "ua_os", "ip_bucket", "country">>
    ELSE <<"ts", "event_type", "page_path", "target", "ua_browser", "ua_os", "ip_bucket", "country">>

NoTable == [exists |-> FALSE, cols |-> {}]

\* CREATE TABLE IF NOT EXISTS
CreateIfNotExists(tab, t) == IF tab.exists THEN tab ELSE [exists |-> TRUE, cols |-> CreateCols(t)]

\* variant: the probe selects from the table without naming the column
ProbeTableOnly(tab, col) == tab.exists

\* SELECT <col> FROM <table> LIMIT 1: TRUE when the statement runs, FALSE when
\* it raises OperationalError (no such column)
Probe(tab, col) == tab.exists /\ col \in tab.cols

\* ALTER TABLE <table> ADD COLUMN <col>: the table afterwards, and whether the
\* statement raised (duplicate column name)
AlterAddColumn(tab, col) ==
    IF tab.exists /\ col \notin tab.cols
    THEN [tab |-> [tab EXCEPT !.cols = @ \cup {col}], raised |-> FALSE]
    ELSE [tab |-> tab, raised |-> TRUE]

\* probe each expected column with SELECT; ALTER TABLE ADD COLUMN when the
\* probe fails; an error of ALTER TABLE is not caught
RECURSIVE AddMissing(_, _, _)
AddMissing(tab, defs, i) ==
    IF i > Len(defs) THEN [tab |-> tab, raised |-> FALSE]
    ELSE IF Probe(tab, defs[i]) THEN AddMissing(tab, defs, i + 1)
    ELSE IF AlterAddColumn(tab, defs[i]).raised THEN AlterAddColumn(tab, defs[i])
    ELSE AddMissing(AlterAddColumn(tab, defs[i]).tab, defs, i + 1)

\* the schema ensure_columns(db) leaves, run on its own
ensure_columns(sch) ==
    [t \in Tables |-> AddMissing(CreateIfNotExists(sch[t], t), ColDefs(t), 1).tab]

\* whether ensure_columns(db), run on its own, raises
ensure_columns_raised(sch) ==
    \E t \in Tables : AddMissing(CreateIfNotExists(sch[t], t), ColDefs(t), 1).raised

SchemaComplete(sch) == \A t \in Tables : sch[t].exists /\ CreateCols(t) \subseteq sch[t].cols

\* --------------------------------------------------------------- retention
\* variant: compares instants and also deletes a row exactly at the cutoff
DeleteExpiredAtCutoff(rows, t, days) == {r \in rows : TsTicks(r.ts) > t - days * TicksPerDay}

\* variant: the comparison is inverted, so recent rows are the ones deleted
DeleteExpiredInverted(rows, t, days) == {r \in rows : TextLess(r.ts, SqliteDatetime(t, days))}

\* DELETE FROM <table> WHERE ts < datetime('now', '-<RETENTION_DAYS> days')
DeleteExpired(rows, t, days) == {r \in rows : ~TextLess(r.ts, SqliteDatetime(t, days))}

\* ----------------------------------------------------------- anonymization
\* A raw source address is modelled by the shape of its text: "dotted" is
\* decimal numbers joined by ".", "colon" is a full (uncompressed) IPv6 text
\* of hexadecimal groups joined by ":", "list" is a comma-separated
\* X-Forwarded-For list, "junk" is any other non-empty text, "empty" is the
\* empty string and "none" is Python's None.
Dotted(a, b, c, d) == [form |-> "dotted", parts |-> <<a, b, c, d>>]
Colon(gs) == [form |-> "colon", parts |-> gs]
AddrList(a, b) == [form |-> "list", parts |-> a.parts \o b.parts]
JunkAddr == [form |-> "junk", parts |-> <<>>]
NoAddr == [form |-> "none", parts |-> <<>>]

\* ipaddress.ip_address(raw): the version, or 0 for ValueError
ip_address(raw) ==
    IF raw.form = "dotted" /\ Len(raw.parts) = 4 /\ \A i \in 1..4 : raw.parts[i] \in 0..255
    THEN 4
    ELSE IF raw.form = "colon" /\ Len(raw.parts) = 8 /\ \A i \in 1..8 : raw.parts[i] \in 0..65535
    THEN 6
    ELSE 0

RECURSIVE BitAnd(_, _)
BitAnd(a, b) ==
    IF a = 0 \/ b = 0 THEN 0
    ELSE (IF a % 2 = 1 /\ b % 2 = 1 THEN 1 ELSE 0) + 2 * BitAnd(a \div 2, b \div 2)

\* (2**128 - 1) ^ (2**96 - 1), as eight 16-bit groups
Mask32 == <<65535, 65535, 0, 0, 0, 0, 0, 0>>

\* variant: nothing is zeroed, the whole address is hashed
TruncateNothing(raw) == [form |-> raw.form, parts |-> raw.parts]

\* variant: IPv4 keeps three octets (/24)
Truncate24(raw) ==
    IF ip_address(raw) = 4
    THEN [form |-> "dotted", parts |-> <<raw.parts[1], raw.parts[2], raw.parts[3], 0>>]
    ELSE [form |-> "colon", parts |-> [i \in 1..8 |-> BitAnd(raw.parts[i], Mask32[i])]]

\* the text handed to the keyed hash: "a.b.0.0" or the exploded IPv6 text
Truncate(raw) ==
    IF ip_address(raw) = 4
    THEN IF Len(raw.parts) = 4
         THEN [form |-> "dotted", parts |-> <<raw.parts[1], raw.parts[2], 0, 0>>]
         ELSE [form |-> "dotted", parts |-> <<0, 0, 0, 0>>]
    ELSE [form |-> "colon", parts |-> [i \in 1..8 |-> BitAnd(raw.parts[i], Mask32[i])]]

HexChars == <<"0","1","2","3","4","5","6","7","8","9","a","b","c","d","e","f">>
HexCharSet == {HexChars[i] : i \in 1..16}

RECURSIVE HexOf(_, _)
HexOf(n, width) == IF width = 0 THEN <<>> ELSE HexOf(n \div 16, width - 1) \o <<n % 16>>

RECURSIVE HexOfAll(_, _, _)
HexOfAll(parts, width, i) ==
    IF i > Len(parts) THEN <<>> ELSE HexOf(parts[i], width) \o HexOfAll(parts, width, i + 1)

RECURSIVE HexString(_, _, _)
HexString(digits, key, i) ==
    IF i > Len(digits) THEN ""
    ELSE HexChars[((digits[i] + key) % 16) + 1] \o HexString(digits, key, i + 1)

\* numeric stand-in for the secret salt
IP_SALT == 3

\* hmac.new(key, text, sha256).hexdigest(): 64 hex characters.  The keyed hash
\* is taken as injective: the digest spells out the hashed text (two hex
\* digits per dotted part, four per IPv6 group), shifted by the key, so that
\* two texts have the same leading 16 characters only if they agree on
\* everything those characters encode.
HmacHexDigest(key, text) ==
    LET body == IF text.form = "dotted" THEN HexOfAll(text.parts, 2, 1)
                ELSE HexOfAll(text.parts, 4, 1)
        pad  == IF text.form = "dotted" THEN 15 ELSE 0
        full == [i \in 1..64 |-> IF i <= Len(body) THEN body[i] ELSE pad]
    IN  HexString(full, key, 1)

\* variant: an address that does not parse is passed through as its text
anonymize_ip_passthrough(raw_ip) ==
    IF ip_address(raw_ip) = 0 THEN raw_ip.form \o ":" \o ToString(raw_ip.parts)
    ELSE (IF ip_address(raw_ip) = 4 THEN "v4" ELSE "v6") \o ":"
         \o SubSeq(HmacHexDigest(IP_SALT, Truncate(raw_ip)), 1, 16)

anonymize_ip(raw_ip) ==
    IF ip_address(raw_ip) = 0 THEN "invalid"
    ELSE (IF ip_address(raw_ip) = 4 THEN "v4" ELSE "v6") \o ":"
         \o SubSeq(HmacHexDigest(IP_SALT, Truncate(raw_ip)), 1, 16)

\* ------------------------------------------------------------- user agent
\* variant: the Chrome rule leaves out the "chromium" exclusion
BrowserOfLooseChrome(ua_lower) ==
    IF Contains(ua_lower, "firefox") /\ ~Contains(ua_lower, "seamonkey") THEN "Firefox"
    ELSE IF Contains(ua_lower, "chrome") /\ ~Contains(ua_lower, "edg") THEN "Chrome"
    ELSE IF Contains(ua_lower, "safari") /\ ~Contains(ua_lower, "chrome") THEN "Safari"
    ELSE IF Contains(ua_lower, "edg") THEN "Edge"
    ELSE IF Contains(ua_lower, "chromium") THEN "Chromium"
    ELSE "Other"

BrowserOf(ua_lower) ==
    IF Contains(ua_lower, "firefox") /\ ~Contains(ua_lower, "seamonkey") THEN "Firefox"
    ELSE IF Contains(ua_lower, "chrome") /\ ~Contains(ua_lower, "chromium")
            /\ ~Contains(ua_lower, "edg") THEN "Chrome"
    ELSE IF Contains(ua_lower, "safari") /\ ~Contains(ua_lower, "chrome") THEN "Safari"
    ELSE IF Contains(ua_lower, "edg") THEN "Edge"
    ELSE IF Contains(ua_lower, "chromium") THEN "Chromium"
    ELSE "Other"

OsOf(ua_lower) ==
    IF Contains(ua_lower, "windows") THEN "Windows"
    ELSE IF Contains(ua_lower, "mac os x") \/ Contains(ua_lower, "macintosh") THEN "macOS"
    ELSE IF Contains(ua_lower, "android") THEN "Android"
    ELSE IF Contains(ua_lower, "iphone") \/ Contains(ua_lower, "ipad")
            \/ Contains(ua_lower, "ios") THEN "iOS"
    ELSE IF Contains(ua_lower, "linux") THEN "Linux"
    ELSE "Other"

parse_user_agent(ua) == [browser |-> BrowserOf(Lower(ua)), os |-> OsOf(Lower(ua))]

\* ---------------------------------------------------------------- referrer
\* A Referer header is modelled by what urlparse makes of it: "absent" (no
\* header), "empty", "url" (has a //netloc part with a host), "nonetloc" (no
\* // part, so no hostname) and "bad" (urlparse raises ValueError).
NoReferer == [form |-> "absent", host |-> ""]

sanitize_referrer(raw_ref) ==
    IF raw_ref.form \in {"absent", "empty"} THEN None
    ELSE IF raw_ref.form = "url" THEN Lower(raw_ref.host)
    ELSE None

\* --------------------------------------------------------------------- geo
\* what the country database holds for a parsed address: found or not, the
\* country code and the registered-country code (None when absent)
GeoEntry(raw) ==
    IF ip_address(raw) = 4 /\ raw.parts[1] = 203
    THEN [found |-> TRUE, iso |-> "CH", registered |-> "CH"]
    ELSE IF ip_address(raw) = 4 /\ raw.parts[1] = 198
    THEN [found |-> TRUE, iso |-> None, registered |-> "DE"]
    ELSE IF ip_address(raw) = 4 /\ raw.parts[1] = 192
    THEN [found |-> TRUE, iso |-> None, registered |-> None]
    ELSE IF ip_address(raw) = 6 /\ raw.parts[1] = 8193
    THEN [found |-> TRUE, iso |-> "US", registered |-> "US"]
    ELSE [found |-> FALSE, iso |-> None, registered |-> None]

\* get_geoip_reader(): the reader after the call ("None" or "open") and
\* whether opening the database raised
get_geoip_reader(reader, file) ==
    IF reader = None
    THEN IF file = "absent" THEN [reader |-> None, raised |-> FALSE]
         ELSE IF file = "good" THEN [reader |-> "open", raised |-> FALSE]
         ELSE [reader |-> None, raised |-> TRUE]
    ELSE [reader |-> reader, raised |-> FALSE]

\* get_country_from_ip() once the reader is known
get_country_from_ip(reader, raw_ip) ==
    IF reader = None \/ raw_ip.form \in {"none", "empty"} THEN "UNK"
    ELSE IF ip_address(raw_ip) = 0 THEN "UNK"
    ELSE IF ~GeoEntry(raw_ip).found THEN "UNK"
    ELSE LET code == IF GeoEntry(raw_ip).iso # None THEN GeoEntry(raw_ip).iso
                     ELSE GeoEntry(raw_ip).registered
         IN  IF code # None THEN code ELSE "UNK"

\* -------------------------------------------------------------------- JSON
JNull == [j |-> "null"]
JStr(s) == [j |-> "string", s |-> s]
JNum(n) == [j |-> "number", n |-> n]
JArr(items) == [j |-> "array", items |-> items]
JObj(fields) == [j |-> "object", fields |-> fields]
EmptyObj == JObj(<<>>)

\* Python truthiness of a decoded JSON value
Truthy(v) ==
    IF v.j = "null" THEN FALSE
    ELSE IF v.j = "string" THEN v.s # ""
    ELSE IF v.j = "number" THEN v.n # 0
    ELSE IF v.j = "array" THEN Len(v.items) > 0
    ELSE DOMAIN v.fields # {}

\* request.get_json(silent=True): JNull stands for Python's None (no body,
\* a body that is not JSON, or the JSON value null)
get_json(body) == IF body.form = "json" THEN body.value ELSE JNull

\* dict.get(key, default)
DictGet(data, key, default) == IF key \in DOMAIN data.fields THEN data.fields[key] ELSE default

\* str(value)
PyStr(v) ==
    IF v.j = "string" THEN v.s
    ELSE IF v.j = "null" THEN "None"
    ELSE IF v.j = "number" THEN ToString(v.n)
    ELSE IF v.j = "array" THEN "[...]"
    ELSE "{...}"

\* lines 363-368 of event(): the fields of the record, or raised when the
\* decoded body has no .get (it is not an object)
EventFields(body) ==
    LET data == IF Truthy(get_json(body)) THEN get_json(body) ELSE EmptyObj
    IN  IF data.j # "object"
        THEN [raised |-> TRUE, event_type |-> "", page_path |-> "", target |-> None]
        ELSE [raised     |-> FALSE,
              event_type |-> Slice(PyStr(DictGet(data, "type", JStr("unknown"))), 50),
              page_path  |-> Slice(PyStr(DictGet(data, "page", JStr("/"))), 500),
              target     |-> IF DictGet(data, "target", JNull) = JNull THEN None
                             ELSE Slice(PyStr(DictGet(data, "target", JNull)), 500)]

\* ------------------------------------------------------------------ inputs
ChromeUA == "Mozilla/5.0 (Windows NT 10.0) Chrome/120 Safari/537"
FirefoxUA == "Mozilla/5.0 (X11; Linux) Firefox/121"

Addr1 == Dotted(203, 0, 113, 5)
Addr6 == Colon(<<8193, 3512, 0, 0, 0, 0, 0, 1>>)

\* headers: X-Forwarded-For (NoAddr when absent), remote address, User-Agent
\* ("" when absent) and Referer
HdrV4 == [xff |-> Addr1, remote_addr |-> Dotted(10, 0, 0, 1), ua |-> ChromeUA,
          referer |-> [form |-> "url", host |-> "Example.com"]]
HdrV6 == [xff |-> NoAddr, remote_addr |-> Addr6, ua |-> FirefoxUA, referer |-> NoReferer]
HdrList == [xff |-> AddrList(Addr1, Dotted(10, 0, 0, 1)), remote_addr |-> Addr1, ua |-> "",
            referer |-> [form |-> "bad", host |-> ""]]
HdrJunk == [xff |-> JunkAddr, remote_addr |-> Addr1, ua |-> "",
            referer |-> [form |-> "nonetloc", host |-> ""]]
PlainHeaders == [xff |-> NoAddr, remote_addr |-> NoAddr, ua |-> "",
                 referer |-> [form |-> "empty", host |-> ""]]

Headers == {HdrV4, HdrV6, HdrList, HdrJunk, PlainHeaders}

\* the source address request_fingerprint() reads
SrcIp(hdr) == IF hdr.xff # NoAddr THEN hdr.xff ELSE hdr.remote_addr

\* anonymize_ip, parse_user_agent and sanitize_referrer of each of the headers
\* above, computed once
HeaderFacts ==
    [h \in Headers |-> [ip_bucket |-> anonymize_ip(SrcIp(h)),
                        agent     |-> parse_user_agent(h.ua),
                        referrer  |-> sanitize_referrer(h.referer)]]

\* request_fingerprint(req): the metadata, or raised when the geo database
\* could not be opened
request_fingerprint(hdr, reader, file) ==
    LET rd == get_geoip_reader(reader, file)
    IN  [raised     |-> rd.raised,
         reader     |-> rd.reader,
         ip_bucket  |-> HeaderFacts[hdr].ip_bucket,
         country    |-> IF rd.raised THEN "UNK" ELSE get_country_from_ip(rd.reader, SrcIp(hdr)),
         ua_browser |-> HeaderFacts[hdr].agent.browser,
         ua_os      |-> HeaderFacts[hdr].agent.os]

\* POST bodies of /event
BodyAbsent == [form |-> "absent", value |-> JNull]
BodyNotJson == [form |-> "notjson", value |-> JNull]
BodyJson(v) == [form |-> "json", value |-> v]
CheckoutObj ==
    JObj([k \in {"type", "target", "page"} |->
            IF k = "type" THEN JStr("buy_checkout")
            ELSE IF k = "target" THEN JStr("Item A") ELSE JStr("/shop")])

\* beacon requests: headers and the ?p= query parameter (None when absent)
PixelRequests ==
    { [hdr |-> HdrV4, p |-> "/shop"],
      [hdr |-> HdrV6, p |-> None],
      [hdr |-> HdrList, p |-> None],
      [hdr |-> HdrJunk, p |-> None],
      [hdr |-> PlainHeaders, p |-> None] }

\* POST /event requests: headers and body
EventRequests ==
    { [hdr |-> HdrV4, body |-> BodyJson(CheckoutObj)],
      [hdr |-> HdrList, body |-> BodyJson(JObj([k \in {"type", "target"} |-> JNull]))],
      [hdr |-> HdrV6, body |-> BodyJson(JObj([k \in {"target"} |-> JNull]))],
      [hdr |-> HdrV6, body |-> BodyJson(EmptyObj)],
      [hdr |-> HdrV6, body |-> BodyAbsent],
      [hdr |-> HdrV6, body |-> BodyNotJson],
      [hdr |-> HdrV6, body |-> BodyJson(JArr(<<>>))],
      [hdr |-> HdrV6, body |-> BodyJson(JNum(0))],
      [hdr |-> HdrV4, body |-> BodyJson(JArr(<<1>>))],
      [hdr |-> HdrJunk, body |-> BodyJson(JStr("hello"))],
      [hdr |-> PlainHeaders, body |-> BodyJson(JNum(7))] }

NoBody == BodyAbsent

DASH_TOKEN == "changeme"
Tokens == {"changeme", "wrong", ""}

GeoFiles == {"absent", "good", "unreadable"}

\* schemas the database file can start with: no table yet, tables of an
\* older release that lack some columns, or the current tables
InitialSchemas ==
    { [t \in Tables |-> NoTable],
      [t \in Tables |-> [exists |-> TRUE, cols |-> CreateCols(t) \ {"country", "referrer"}]],
      [t \in Tables |-> [exists |-> TRUE, cols |-> CreateCols(t)]] }

NoReq == [kind |-> "none", phase |-> "idle", hdr |-> PlainHeaders, p |-> None,
          token |-> "", body |-> NoBody]

NoResp == [status |-> 0]

\* ------------------------------------------------------------------- state
VARIABLES
    now,            \* the clock, in ticks
    retentionDays,  \* RETENTION_DAYS
    geoFile,        \* the file at GEOIP_DB_PATH
    geoip_reader,   \* the process-wide reader: None or "open"
    schema,         \* per table: whether it exists and its columns
    pageviews,      \* rows of table pageviews
    events,         \* rows of table events
    pvSeq,          \* last AUTOINCREMENT id of pageviews
    evSeq,          \* last AUTOINCREMENT id of events
    req,            \* the request being handled and how far it has got
    resp,           \* its response
    calc            \* input and result of a helper applied on its own

vars == <<now, retentionDays, geoFile, geoip_reader, schema, pageviews, events,
          pvSeq, evSeq, req, resp, calc>>

NoCalc == [fn |-> "none"]

Init ==
    /\ now = 0
    /\ retentionDays \in 1..MaxRetention
    /\ geoFile \in GeoFiles
    /\ geoip_reader = None
    /\ schema \in InitialSchemas
    /\ pageviews = {}
    /\ events = {}
    /\ pvSeq = 0
    /\ evSeq = 0
    /\ req = NoReq
    /\ resp = NoResp
    /\ calc = NoCalc

\* ------------------------------------------------------------ aggregation
\* WHERE ts >= datetime('now', '-30 days')
WindowDays == 30
InWindow(rows, t) == {r \in rows : ~TextLess(r.ts, SqliteDatetime(t, WindowDays))}

\* the GROUP BY expression of each query
KeyOf(r, by) ==
    IF by = "path" THEN r.path
    ELSE IF by = "country" THEN r.country
    ELSE IF by = "event" THEN <<r.event_type, r.target>>
    ELSE IF by = "referrer" THEN r.referrer
    ELSE IF by = "agent" THEN <<r.ua_browser, r.ua_os>>
    ELSE r.ts[1]

\* GROUP BY key, COUNT(*)
GroupCount(rows, by) ==
    {[key |-> k, n |-> Cardinality({r \in rows : KeyOf(r, by) = k})] :
        k \in {KeyOf(r, by) : r \in rows}}

\* SQLite leaves the order of rows with equal counts open: it is the order in
\* which the scan delivers the groups.  Two scan orders are modelled, a fixed
\* listing of the groups and its reverse; one request scans all its queries the
\* same way.
ScanOrders == {"forward", "backward"}

RECURSIVE AnyListing(_)
AnyListing(groups) ==
    IF groups = {} THEN <<>>
    ELSE LET g == CHOOSE x \in groups : TRUE
         IN  <<g>> \o AnyListing(groups \ {g})

Reverse(s) == [i \in 1..Len(s) |-> s[Len(s) + 1 - i]]

Scan(groups, scan) ==
    IF scan = "forward" THEN AnyListing(groups) ELSE Reverse(AnyListing(groups))

LargestCount(groups) ==
    IF groups = {} THEN 0 ELSE CHOOSE m \in {g.n : g \in groups} : \A g \in groups : g.n <= m

\* the groups with count k, k - 1, ..., 1 of a listing, each in listing order
RECURSIVE ByCountDesc(_, _)
ByCountDesc(s, k) ==
    IF k = 0 THEN <<>>
    ELSE SelectSeq(s, LAMBDA g : g.n = k) \o ByCountDesc(s, k - 1)

\* ORDER BY count DESC
OrderedDesc(groups, scan) == ByCountDesc(Scan(groups, scan), LargestCount(groups))

\* ORDER BY day ASC
RECURSIVE OrderedByDay(_)
OrderedByDay(groups) ==
    IF groups = {} THEN <<>>
    ELSE LET g == CHOOSE x \in groups : \A y \in groups : x.key <= y.key
         IN  <<g>> \o OrderedByDay(groups \ {g})

\* LIMIT 50
RowLimit == 50
Limit(s, n) == IF Len(s) <= n THEN s ELSE SubSeq(s, 1, n)

RECURSIVE SumN(_, _)
SumN(s, i) == IF i > Len(s) THEN 0 ELSE s[i].n + SumN(s, i + 1)

\* build_sparkline(points)["last_count"]
SparkLast(points) == IF Len(points) = 0 THEN 0 ELSE points[Len(points)].n

\* max(counts) and min(counts)
MaxOf(counts) == CHOOSE m \in {counts[i] : i \in DOMAIN counts} : \A i \in DOMAIN counts : counts[i] <= m
MinOf(counts) == CHOOSE m \in {counts[i] : i \in DOMAIN counts} : \A i \in DOMAIN counts : counts[i] >= m

\* the chart stats() asks for
SparkWidth == 320
SparkHeight == 60

\* variant: the lowest count is drawn on the bottom edge of the chart
build_sparkline_unpadded(points, width, height) ==
    IF Len(points) = 0
    THEN [xs |-> <<>>, ys |-> <<>>, last_count |-> 0]
    ELSE LET counts == [i \in 1..Len(points) |-> points[i].n]
             min_c  == MinOf(counts)
             span_c == IF MaxOf(counts) - min_c = 0 THEN 1 ELSE MaxOf(counts) - min_c
             n      == Len(points)
         IN  [xs |-> IF n = 1 THEN <<[num |-> width, den |-> 2]>>
                     ELSE [i \in 1..n |-> [num |-> (i - 1) * width, den |-> n - 1]],
              ys |-> [i \in 1..n |->
                        [num |-> height * span_c - (counts[i] - min_c) * (height - 4),
                         den |-> span_c]],
              last_count |-> counts[n]]

\* build_sparkline(points, width, height): the x and y of every point of the
\* path and the last count.  A coordinate is the exact fraction num/den of the
\* float expression (the rounding of float division and multiplication is
\* monotone and exact at 0 and 1, so order and the end values are the same).
build_sparkline(points, width, height) ==
    IF Len(points) = 0
    THEN [xs |-> <<>>, ys |-> <<>>, last_count |-> SparkLast(points)]
    ELSE LET counts == [i \in 1..Len(points) |-> points[i].n]
             max_c  == IF MaxOf(counts) = 0 THEN 1 ELSE MaxOf(counts)
             min_c  == MinOf(counts)
             span_c == IF max_c - min_c = 0 THEN 1 ELSE max_c - min_c
             n      == Len(points)
         IN  [xs |-> IF n = 1 THEN <<[num |-> width, den |-> 2]>>
                     ELSE [i \in 1..n |-> [num |-> (i - 1) * width, den |-> n - 1]],
              ys |-> [i \in 1..n |->
                        [num |-> height * span_c - (counts[i] - min_c) * (height - 4)
                                   - 2 * span_c,
                         den |-> span_c]],
              last_count |-> SparkLast(points)]

\* the queries and derived values of stats(), for one scan order
StatsResult(pvs, evs, t, scan) ==
    LET recent           == InWindow(pvs, t)
        recent_paths     == Limit(OrderedDesc(GroupCount(recent, "path"), scan), RowLimit)
        recent_referrers == Limit(OrderedDesc(GroupCount(
                                {r \in recent : r.referrer # None}, "referrer"), scan),
                                RowLimit)
        recent_countries == OrderedDesc(GroupCount(recent, "country"), scan)
        recent_agents    == OrderedDesc(GroupCount(recent, "agent"), scan)
        recent_events    == Limit(OrderedDesc(GroupCount(InWindow(evs, t), "event"), scan), RowLimit)
        day_points       == OrderedByDay(GroupCount(recent, "day"))
        spark            == build_sparkline(day_points, SparkWidth, SparkHeight)
    IN  [status           |-> 200,
         recent_paths     |-> recent_paths,
         total_views_30d  |-> SumN(recent_paths, 1),
         recent_referrers |-> recent_referrers,
         recent_countries |-> recent_countries,
         recent_agents    |-> recent_agents,
         recent_events    |-> recent_events,
         total_events_30d |-> SumN(recent_events, 1),
         top_page         |-> IF Len(recent_paths) > 0 THEN recent_paths[1].key ELSE "-",
         top_country      |-> IF Len(recent_countries) > 0 THEN recent_countries[1].key ELSE "-",
         day_points       |-> day_points,
         spark            |-> spark,
         spark_last       |-> spark.last_count]

\* ----------------------------------------------------------------- actions
\* a request arrives and Flask calls before(); nothing before() does depends
\* on the route or on the request's data, which the route handler reads
Arrive ==
    /\ req.phase = "idle"
    /\ req' = [req EXCEPT !.phase = "received"]
    /\ resp' = NoResp
    /\ UNCHANGED <<now, retentionDays, geoFile, geoip_reader, schema, pageviews, events,
                   pvSeq, evSeq, calc>>

\* before(), first half: ensure_columns(db); an error ends the request
EnsureSchema ==
    /\ req.phase = "received"
    /\ schema' = ensure_columns(schema)
    /\ IF ensure_columns_raised(schema)
       THEN /\ req' = [req EXCEPT !.phase = "done"]
            /\ resp' = [status |-> 500]
       ELSE /\ req' = [req EXCEPT !.phase = "ensured"]
            /\ resp' = resp
    /\ UNCHANGED <<now, retentionDays, geoFile, geoip_reader, pageviews, events,
                   pvSeq, evSeq, calc>>

\* before(), second half: the two DELETE statements and the commit
PurgeExpired ==
    /\ req.phase = "ensured"
    /\ pageviews' = DeleteExpired(pageviews, now, retentionDays)
    /\ events' = DeleteExpired(events, now, retentionDays)
    /\ req' = [req EXCEPT !.phase = "purged"]
    /\ UNCHANGED <<now, retentionDays, geoFile, geoip_reader, schema, pvSeq, evSeq, resp, calc>>

\* the row pixel() inserts
PageviewRow(id, t, p, hdr, meta) ==
    LET path == IF p = None THEN "/" ELSE p
        ref  == HeaderFacts[hdr].referrer
    IN  [id         |-> id,
         ts         |-> IsoFormat(t),
         path       |-> Slice(path, 500),
         referrer   |-> IF ref # None THEN Slice(ref, 255) ELSE None,
         ua_browser |-> Slice(meta.ua_browser, 50),
         ua_os      |-> Slice(meta.ua_os, 50),
         ip_bucket  |-> Slice(meta.ip_bucket, 80),
         country    |-> Slice(meta.country, 4)]

\* pixel()
Pixel ==
    /\ req.phase = "purged"
    /\ pvSeq + evSeq < MaxRows
    /\ \E rq \in PixelRequests :
          LET h    == rq.hdr
              pp   == rq.p
              meta == request_fingerprint(h, geoip_reader, geoFile)
          IN  /\ geoip_reader' = meta.reader
              /\ IF meta.raised
                 THEN /\ resp' = [status |-> 500]
                      /\ UNCHANGED <<pageviews, pvSeq>>
                 ELSE /\ pageviews' = pageviews \cup {PageviewRow(pvSeq + 1, now, pp, h, meta)}
                      /\ pvSeq' = pvSeq + 1
                      /\ resp' = [status |-> 200]
              /\ req' = [req EXCEPT !.phase = "done", !.kind = "pixel", !.hdr = h, !.p = pp]
    /\ UNCHANGED <<now, retentionDays, geoFile, schema, events, evSeq, calc>>

\* event(), method OPTIONS
EventOptions ==
    /\ req.phase = "purged"
    /\ resp' = [status |-> 200]
    /\ req' = [req EXCEPT !.phase = "done", !.kind = "event_options"]
    /\ UNCHANGED <<now, retentionDays, geoFile, geoip_reader, schema, pageviews, events,
                   pvSeq, evSeq, calc>>

\* variant: page_path and target change places in the INSERT
EventRowSwapped(id, t, f, meta) ==
    [id         |-> id,
     ts         |-> IsoFormat(t),
     event_type |-> f.event_type,
     page_path  |-> f.target,
     target     |-> f.page_path,
     ua_browser |-> Slice(meta.ua_browser, 50),
     ua_os      |-> Slice(meta.ua_os, 50),
     ip_bucket  |-> Slice(meta.ip_bucket, 80),
     country    |-> Slice(meta.country, 4)]

\* the row event() inserts
EventRow(id, t, f, meta) ==
    [id         |-> id,
     ts         |-> IsoFormat(t),
     event_type |-> f.event_type,
     page_path  |-> f.page_path,
     target     |-> f.target,
     ua_browser |-> Slice(meta.ua_browser, 50),
     ua_os      |-> Slice(meta.ua_os, 50),
     ip_bucket  |-> Slice(meta.ip_bucket, 80),
     country    |-> Slice(meta.country, 4)]

\* event(), method POST
EventPost ==
    /\ req.phase = "purged"
    /\ pvSeq + evSeq < MaxRows
    /\ \E rq \in EventRequests :
          LET h    == rq.hdr
              b    == rq.body
              f    == EventFields(b)
              meta == request_fingerprint(h, geoip_reader, geoFile)
          IN  /\ IF f.raised
                 THEN /\ resp' = [status |-> 500]
                      /\ UNCHANGED <<geoip_reader, events, evSeq>>
                 ELSE /\ geoip_reader' = meta.reader
                      /\ IF meta.raised
                         THEN /\ resp' = [status |-> 500]
                              /\ UNCHANGED <<events, evSeq>>
                         ELSE /\ events' = events \cup {EventRow(evSeq + 1, now, f, meta)}
                              /\ evSeq' = evSeq + 1
                              /\ resp' = [status |-> 200]
              /\ req' = [req EXCEPT !.phase = "done", !.kind = "event_post", !.hdr = h, !.body = b]
    /\ UNCHANGED <<now, retentionDays, geoFile, schema, pageviews, pvSeq, calc>>

\* stats()
Stats ==
    /\ req.phase = "purged"
    /\ \E tok \in Tokens :
          /\ IF tok # DASH_TOKEN
             THEN resp' = [status |-> 403]
             ELSE \E scan \in ScanOrders : resp' = StatsResult(pageviews, events, now, scan)
          /\ req' = [req EXCEPT !.phase = "done", !.kind = "stats", !.token = tok]
    /\ UNCHANGED <<now, retentionDays, geoFile, geoip_reader, schema, pageviews, events,
                   pvSeq, evSeq, calc>>

\* variant: the route answers without waiting for before()
HealthzUnprepared ==
    /\ req.phase = "received"
    /\ resp' = [status |-> 200]
    /\ req' = [req EXCEPT !.phase = "done", !.kind = "healthz"]
    /\ UNCHANGED <<now, retentionDays, geoFile, geoip_reader, schema, pageviews, events,
                   pvSeq, evSeq, calc>>

\* healthz()
Healthz ==
    /\ req.phase = "purged"
    /\ resp' = [status |-> 200]
    /\ req' = [req EXCEPT !.phase = "done", !.kind = "healthz"]
    /\ UNCHANGED <<now, retentionDays, geoFile, geoip_reader, schema, pageviews, events,
                   pvSeq, evSeq, calc>>

\* close_db(): the request is over
Teardown ==
    /\ req.phase = "done"
    /\ req' = NoReq
    /\ resp' = NoResp
    /\ UNCHANGED <<now, retentionDays, geoFile, geoip_reader, schema, pageviews, events,
                   pvSeq, evSeq, calc>>

\* time passes between two requests
Tick ==
    /\ req.phase = "idle"
    /\ now < MaxTime
    /\ now' = now + 1
    /\ UNCHANGED <<retentionDays, geoFile, geoip_reader, schema, pageviews, events,
                   pvSeq, evSeq, req, resp, calc>>

Next ==
    \/ Arrive
    \/ EnsureSchema
    \/ PurgeExpired
    \/ Pixel
    \/ EventOptions
    \/ EventPost
    \/ Stats
    \/ Healthz
    \/ Teardown
    \/ Tick

Spec == Init /\ [][Next]_vars

\* ------------------------------------------------ helpers applied on their own
\* the state of the service while a helper is exercised on its own
Quiescent ==
    /\ now = 0
    /\ retentionDays = 1
    /\ geoFile = "absent"
    /\ geoip_reader = None
    /\ schema = [t \in Tables |-> [exists |-> TRUE, cols |-> CreateCols(t)]]
    /\ pageviews = {}
    /\ events = {}
    /\ pvSeq = 0
    /\ evSeq = 0
    /\ req = NoReq
    /\ resp = NoResp

ServiceVars == <<now, retentionDays, geoFile, geoip_reader, schema, pageviews, events,
                 pvSeq, evSeq, req, resp>>

\* source addresses for anonymize_ip
AnonAddrs ==
    { Dotted(203, 0, 113, 5), Dotted(203, 0, 113, 99), Dotted(203, 0, 114, 5),
      Dotted(203, 1, 113, 5), Dotted(198, 0, 113, 5), Dotted(10, 0, 0, 1),
      Colon(<<8193, 3512, 0, 0, 0, 0, 0, 1>>), Colon(<<8193, 3512, 1, 0, 0, 0, 0, 2>>),
      Colon(<<8193, 3513, 0, 0, 0, 0, 0, 1>>), Colon(<<9216, 3512, 0, 0, 0, 0, 0, 1>>),
      Dotted(203, 0, 113, 256), JunkAddr }

InitAnon ==
    /\ Quiescent
    /\ \E a \in AnonAddrs, b \in AnonAddrs :
          calc = [fn |-> "anonymize_ip", a |-> a, b |-> b, done |-> FALSE,
                  ra |-> "", rb |-> ""]

\* anonymize_ip applied to two addresses under the one process-wide salt
ApplyAnonymize ==
    /\ calc.fn = "anonymize_ip"
    /\ ~calc.done
    /\ calc' = [calc EXCEPT !.done = TRUE, !.ra = anonymize_ip(calc.a),
                            !.rb = anonymize_ip(calc.b)]
    /\ UNCHANGED ServiceVars

NextAnon == ApplyAnonymize

SpecAnon == InitAnon /\ [][NextAnon]_vars

\* User-Agent texts: "Mozilla/5.0" followed by any choice of the product
\* tokens the browser rules look for, spelled in mixed, upper or lower case
UaTokens == <<"firefox", "seamonkey", "chrome", "chromium", "edg", "safari">>
UaSpelling ==
    [mixed |-> <<"Firefox/121", "SeaMonkey/2", "Chrome/120", "Chromium/119", "Edg/120", "Safari/537">>,
     upper |-> <<"FIREFOX/121", "SEAMONKEY/2", "CHROME/120", "CHROMIUM/119", "EDG/120", "SAFARI/537">>,
     lower |-> <<"firefox/121", "seamonkey/2", "chrome/120", "chromium/119", "edg/120", "safari/537">>]
UaStyles == {"mixed", "upper", "lower"}

RECURSIVE UaText(_, _, _)
UaText(toks, style, i) ==
    IF i > Len(UaTokens) THEN ""
    ELSE (IF UaTokens[i] \in toks THEN " " \o UaSpelling[style][i] ELSE "")
         \o UaText(toks, style, i + 1)

InitUA ==
    /\ Quiescent
    /\ \E toks \in SUBSET {UaTokens[i] : i \in 1..Len(UaTokens)}, style \in UaStyles :
          calc = [fn |-> "parse_user_agent", toks |-> toks, style |-> style,
                  ua |-> "Mozilla/5.0 (X11; Linux x86_64)" \o UaText(toks, style, 1),
                  done |-> FALSE, browser |-> "", os |-> ""]

ApplyParseUserAgent ==
    /\ calc.fn = "parse_user_agent"
    /\ ~calc.done
    /\ calc' = [calc EXCEPT !.done = TRUE, !.browser = parse_user_agent(calc.ua).browser,
                            !.os = parse_user_agent(calc.ua).os]
    /\ UNCHANGED ServiceVars

NextUA == ApplyParseUserAgent

SpecUA == InitUA /\ [][NextUA]_vars

\* ------------------------------------------- the dashboard over a filled store
\* Storage as earlier requests have left it: pageviews and events written at
\* chosen ages before now, and pageviews of many distinct paths written now.
RETENTION_DAYS_DEFAULT == 180

\* most distinct paths beyond the row limit, and most extra hits of one path
MaxExtraPaths == 1
MaxRepeat == 1

\* the clock of the dashboard request: day WindowDays + 1, at midnight and
\* one tick after it
DashTimes == {(WindowDays + 1) * TicksPerDay, (WindowDays + 1) * TicksPerDay + 1}

DashRetentions == {MaxRetention, WindowDays, RETENTION_DAYS_DEFAULT}

\* the times of the records written earlier, oldest first: 31 days before t,
\* 30 days and one tick before t, exactly 30 days before t, one tick before t
EarlierTimes(t) ==
    <<t - (WindowDays + 1) * TicksPerDay, t - WindowDays * TicksPerDay - 1,
      t - WindowDays * TicksPerDay, t - 1>>

\* the ?p= values of the beacons written now
PathNames == [i \in 1..(RowLimit + MaxExtraPaths) |-> "/p" \o ToString(i)]

PathCounts == {0, 1, RowLimit, RowLimit + MaxExtraPaths}

\* request_fingerprint of the two clients, with the country database open
DashMeta == [h \in {HdrV4, HdrV6} |-> request_fingerprint(h, "open", "good")]

\* the beacons behind the stored pageviews, in the order they arrived
DashHits(t, earlier, paths, repeat) ==
    LET old == SelectSeq(<<1, 2, 3, 4>>, LAMBDA i : i \in earlier)
    IN  [i \in 1..Len(old) |-> [t |-> EarlierTimes(t)[old[i]], p |-> "/old", hdr |-> HdrV6]]
        \o [i \in 1..repeat |-> [t |-> t, p |-> PathNames[1], hdr |-> HdrV4]]
        \o [i \in 1..paths |-> [t |-> t, p |-> PathNames[i], hdr |-> HdrV4]]

DashPageviews(hits) ==
    {PageviewRow(i, hits[i].t, hits[i].p, hits[i].hdr, DashMeta[hits[i].hdr]) :
        i \in 1..Len(hits)}

\* the stored events: checkout events posted at some of the earlier times
DashEvents(t, earlier) ==
    LET old == SelectSeq(<<1, 2, 3, 4>>, LAMBDA i : i \in earlier)
    IN  {EventRow(i, EarlierTimes(t)[old[i]], EventFields(BodyJson(CheckoutObj)), DashMeta[HdrV4]) :
            i \in 1..Len(old)}

\* every insert follows the purge of its own request, so the purge as of the
\* latest insert has left every stored row in place
Settled(pvs, evs, days) ==
    LET times == {TsTicks(r.ts) : r \in pvs} \cup {TsTicks(r.ts) : r \in evs}
        last  == CHOOSE t \in times : \A u \in times : u <= t
    IN  times # {} => /\ DeleteExpired(pvs, last, days) = pvs
                      /\ DeleteExpired(evs, last, days) = evs

InitDash ==
    /\ now \in DashTimes
    /\ retentionDays \in DashRetentions
    /\ geoFile = "good"
    /\ geoip_reader = "open"
    /\ schema = [t \in Tables |-> [exists |-> TRUE, cols |-> CreateCols(t)]]
    /\ \E earlier \in SUBSET {1, 2, 3, 4}, paths \in PathCounts, repeat \in 0..MaxRepeat :
          /\ pageviews = DashPageviews(DashHits(now, earlier, paths, repeat))
          /\ pvSeq = Len(DashHits(now, earlier, paths, repeat))
    /\ \E posted \in SUBSET {2, 4} :
          /\ events = DashEvents(now, posted)
          /\ evSeq = Cardinality(posted)
    /\ Settled(pageviews, events, retentionDays)
    /\ req = NoReq
    /\ resp = NoResp
    /\ calc = NoCalc

NextDash ==
    \/ Arrive
    \/ EnsureSchema
    \/ PurgeExpired
    \/ Stats
    \/ Teardown

SpecDash == InitDash /\ [][NextDash]_vars

\* daily series for build_sparkline: up to MaxDays days in ascending order,
\* each with a count of 1..MaxCount, as the GROUP BY day query delivers them
MaxDays == 3
MaxCount == 5

DailySeries ==
    UNION {{[i \in 1..n |-> [key |-> i, n |-> c[i]]] : c \in [1..n -> 1..MaxCount]} : n \in 1..MaxDays}

InitSpark ==
    /\ Quiescent
    /\ \E points \in DailySeries :
          calc = [fn |-> "build_sparkline", points |-> points, done |-> FALSE,
                  spark |-> [xs |-> <<>>, ys |-> <<>>, last_count |-> 0]]

\* build_sparkline applied to a series as stats() applies it
ApplyBuildSparkline ==
    /\ calc.fn = "build_sparkline"
    /\ ~calc.done
    /\ calc' = [calc EXCEPT !.done = TRUE,
                            !.spark = build_sparkline(calc.points, SparkWidth, SparkHeight)]
    /\ UNCHANGED ServiceVars

NextSpark == ApplyBuildSparkline

SpecSpark == InitSpark /\ [][NextSpark]_vars

\* ------------------------------------------------- requests on any database file
\* the schemas a database file can have when the service starts: each table
\* absent, or present with any of the probed columns missing
StartTables(t) ==
    {NoTable} \cup {[exists |-> TRUE, cols |-> CreateCols(t) \ missing] :
                        missing \in SUBSET {ColDefs(t)[i] : i \in 1..Len(ColDefs(t))}}

\* a pageview as a table with these columns holds it: NULL in the columns
\* the table lacks
StoredUnder(row, cols) == [f \in DOMAIN row |-> IF f \in cols THEN row[f] ELSE None]

InitSchema ==
    /\ now = 0
    /\ retentionDays = 1
    /\ geoFile = "absent"
    /\ geoip_reader = None
    /\ \E pv \in StartTables("pageviews"), ev \in StartTables("events") :
          schema = [t \in Tables |-> IF t = "pageviews" THEN pv ELSE ev]
    /\ \E stored \in BOOLEAN :
          IF stored /\ {"ts", "path"} \subseteq schema["pageviews"].cols
          THEN /\ pageviews = {StoredUnder(PageviewRow(1, 0, "/shop", HdrV4,
                                    request_fingerprint(HdrV4, None, "absent")),
                                    schema["pageviews"].cols)}
               /\ pvSeq = 1
          ELSE /\ pageviews = {}
               /\ pvSeq = 0
    /\ events = {}
    /\ evSeq = 0
    /\ req = NoReq
    /\ resp = NoResp
    /\ calc = NoCalc

NextSchema ==
    \/ Arrive
    \/ EnsureSchema
    \/ PurgeExpired
    \/ Healthz
    \/ Teardown

SpecSchema == InitSchema /\ [][NextSchema]_vars

\* ------------------------------------ two requests in ensure_columns at once
\* Each request has its own connection, every statement is committed as it
\* runs (sqlite3 opens no transaction for SELECT or DDL), so the statements of
\* the two requests interleave one by one.  calc.at[w] is where request w
\* stands: the statement it runs next (pc), the table and the column index.
Workers == {1, 2}
TableOrder == <<"pageviews", "events">>

\* database files of an older release: both tables exist, some probed columns
\* are missing
RaceSchemas ==
    {[t \in Tables |-> [exists |-> TRUE, cols |-> CreateCols(t) \ missing]] :
        missing \in {{"country"}, {"referrer", "country"}, {"ip_bucket"}}}

InitRace ==
    /\ now = 0
    /\ retentionDays = 1
    /\ geoFile = "absent"
    /\ geoip_reader = None
    /\ schema \in RaceSchemas
    /\ pageviews = {}
    /\ events = {}
    /\ pvSeq = 0
    /\ evSeq = 0
    /\ req = NoReq
    /\ resp = NoResp
    /\ calc = [fn |-> "ensure_columns",
               at |-> [w \in Workers |-> [pc |-> "create", t |-> 1, i |-> 1]]]

\* the position after column i of table t: the next column, the next table,
\* or the commit
NextColumn(at) ==
    IF at.i < Len(ColDefs(TableOrder[at.t])) THEN [pc |-> "probe", t |-> at.t, i |-> at.i + 1]
    ELSE IF at.t < Len(TableOrder) THEN [pc |-> "probe", t |-> at.t + 1, i |-> 1]
    ELSE [pc |-> "commit", t |-> at.t, i |-> at.i]

\* the two CREATE TABLE IF NOT EXISTS statements
RaceCreate(w) ==
    /\ calc.fn = "ensure_columns"
    /\ calc.at[w].pc = "create"
    /\ schema' = [t \in Tables |-> CreateIfNotExists(schema[t], t)]
    /\ calc' = [calc EXCEPT !.at[w] = [pc |-> "probe", t |-> 1, i |-> 1]]
    /\ UNCHANGED <<now, retentionDays, geoFile, geoip_reader, pageviews, events,
                   pvSeq, evSeq, req, resp>>

\* SELECT <col> FROM <table> LIMIT 1
RaceProbe(w) ==
    /\ calc.fn = "ensure_columns"
    /\ calc.at[w].pc = "probe"
    /\ LET at == calc.at[w]
       IN  calc' = [calc EXCEPT !.at[w] =
                      IF Probe(schema[TableOrder[at.t]], ColDefs(TableOrder[at.t])[at.i])
                      THEN NextColumn(at)
                      ELSE [at EXCEPT !.pc = "alter"]]
    /\ UNCHANGED <<now, retentionDays, geoFile, geoip_reader, schema, pageviews, events,
                   pvSeq, evSeq, req, resp>>

\* ALTER TABLE <table> ADD COLUMN <col>; its error is not caught and ends the
\* request
RaceAlter(w) ==
    /\ calc.fn = "ensure_columns"
    /\ calc.at[w].pc = "alter"
    /\ LET at  == calc.at[w]
           tn  == TableOrder[at.t]
           res == AlterAddColumn(schema[tn], ColDefs(tn)[at.i])
       IN  /\ schema' = [schema EXCEPT ![tn] = res.tab]
           /\ calc' = [calc EXCEPT !.at[w] =
                         IF res.raised THEN [at EXCEPT !.pc = "failed"] ELSE NextColumn(at)]
    /\ UNCHANGED <<now, retentionDays, geoFile, geoip_reader, pageviews, events,
                   pvSeq, evSeq, req, resp>>

\* db.commit(): ensure_columns returns
RaceCommit(w) ==
    /\ calc.fn = "ensure_columns"
    /\ calc.at[w].pc = "commit"
    /\ calc' = [calc EXCEPT !.at[w].pc = "returned"]
    /\ UNCHANGED ServiceVars

NextRace ==
    \/ \E w \in Workers : RaceCreate(w)
    \/ \E w \in Workers : RaceProbe(w)
    \/ \E w \in Workers : RaceAlter(w)
    \/ \E w \in Workers : RaceCommit(w)

SpecRace == InitRace /\ [][NextRace]_vars

\* ------------------------------------------------------------- properties
Cutoff == now - retentionDays * TicksPerDay
Age(r) == now - TsTicks(r.ts)

PurgeStep == req.phase = "ensured" /\ req'.phase = "purged"
HandlerStep(kind) == req.phase = "purged" /\ req'.phase = "done" /\ req'.kind = kind

\* C1: right after the retention purge of a request, storage holds no
\* pageview and no event whose timestamp is strictly older than
\* now - retentionDays, whatever its time of day.
C1_NothingOlderAfterPurge ==
    req.phase = "purged" =>
        /\ \A r \in pageviews : ~(TsTicks(r.ts) < Cutoff)
        /\ \A r \in events : ~(TsTicks(r.ts) < Cutoff)

\* C2: the purge deletes every row timestamped retentionDays + 1 days ago and
\* keeps every row timestamped exactly retentionDays days ago.
C2_BoundaryRetained ==
    [][PurgeStep =>
        /\ \A r \in pageviews :
              /\ Age(r) = retentionDays * TicksPerDay => r \in pageviews'
              /\ Age(r) = (retentionDays + 1) * TicksPerDay => r \notin pageviews'
        /\ \A r \in events :
              /\ Age(r) = retentionDays * TicksPerDay => r \in events'
              /\ Age(r) = (retentionDays + 1) * TicksPerDay => r \notin events']_vars

\* a purge has just kept a row exactly at the cutoff and some row has been deleted
C2_Witness ==
    /\ req.phase = "purged"
    /\ \/ \E r \in pageviews : Age(r) = retentionDays * TicksPerDay
       \/ \E r \in events : Age(r) = retentionDays * TicksPerDay
    /\ Cardinality(pageviews) + Cardinality(events) < pvSeq + evSeq

\* C3: within a request, ensure_columns runs first, the purge second, and only
\* then does a route handler insert a row or produce its response.
C3_BeforeRunsFirst ==
    [][/\ (resp'.status # 0 \/ pvSeq' # pvSeq \/ evSeq' # evSeq)
            => req.phase = "purged" /\ SchemaComplete(schema)
       /\ (req'.phase = "purged" /\ req.phase # "purged")
            => req.phase = "ensured" /\ SchemaComplete(schema)
       /\ (req'.phase = "ensured" /\ req.phase # "ensured")
            => req.phase = "received"]_vars

\* a /stats request with a wrong token has been answered
C3_Witness == req.phase = "done" /\ req.kind = "stats" /\ resp.status = 403

\* C4: a beacon appends exactly one pageview and no event, a POST to /event
\* appends exactly one event and no pageview, OPTIONS appends nothing (stated
\* for a service whose country database, if present, can be opened).
C4_OneRowPerIngestion ==
    [][geoFile # "unreadable" =>
        /\ HandlerStep("pixel") =>
              /\ Cardinality(pageviews') = Cardinality(pageviews) + 1
              /\ pageviews \subseteq pageviews'
              /\ events' = events
        /\ HandlerStep("event_post") =>
              /\ Cardinality(events') = Cardinality(events) + 1
              /\ events \subseteq events'
              /\ pageviews' = pageviews
        /\ HandlerStep("event_options") =>
              /\ events' = events
              /\ pageviews' = pageviews]_vars

\* C5: whatever the body, address, user agent and referrer of a POST to
\* /event, the request ends in success with one event appended, missing
\* fields replaced by their defaults (stated for a service whose country
\* database, if present, can be opened).
C5_EventNeverFails ==
    (req.phase = "done" /\ req.kind = "event_post" /\ geoFile # "unreadable") =>
        /\ resp.status = 200
        /\ \E r \in events :
              /\ r.id = evSeq
              /\ r.ts = IsoFormat(now)
              /\ (req.body.form # "json" \/ req.body.value.j # "object") =>
                    r.event_type = "unknown" /\ r.page_path = "/" /\ r.target = None

\* C6: a stored row is never modified, a new row never takes the id of an
\* earlier one, and a row leaves storage only in the retention purge and only
\* when it is at least retentionDays old.
C6_AppendOnly ==
    [][/\ \A r \in pageviews :
             /\ (\E q \in pageviews' : q.id = r.id) => r \in pageviews'
             /\ r \notin pageviews' => PurgeStep /\ Age(r) >= retentionDays * TicksPerDay
       /\ \A r \in events :
             /\ (\E q \in events' : q.id = r.id) => r \in events'
             /\ r \notin events' => PurgeStep /\ Age(r) >= retentionDays * TicksPerDay
       /\ \A q \in pageviews' \ pageviews : q.id > pvSeq
       /\ \A q \in events' \ events : q.id > evSeq]_vars

\* the dashboard has been served while rows written earlier are stored, one
\* of them inserted after the other
C6_Witness ==
    /\ req.phase = "done" /\ req.kind = "stats" /\ resp.status = 200
    /\ \E r \in pageviews : \E q \in events : TsTicks(r.ts) < TsTicks(q.ts) /\ TsTicks(q.ts) < now

BucketShape(b) ==
    \/ b = "invalid"
    \/ /\ Len(b) = 19
       /\ SubSeq(b, 1, 3) \in {"v4:", "v6:"}
       /\ \A i \in 4..19 : SubSeq(b, i, i) \in HexCharSet

\* C7: the ip_bucket of every stored row is "invalid" or "v4:"/"v6:" followed
\* by exactly 16 hex characters.
C7_BucketShape ==
    /\ \A r \in pageviews : BucketShape(r.ip_bucket)
    /\ \A r \in events : BucketShape(r.ip_bucket)

\* rows from an address that does not parse and from an IPv6 address are stored
C7_Witness ==
    /\ \E r \in pageviews : r.ip_bucket = "invalid"
    /\ \E r \in events : Len(r.ip_bucket) = 19 /\ SubSeq(r.ip_bucket, 1, 3) = "v6:"

Both(v) == ip_address(calc.a) = v /\ ip_address(calc.b) = v
SamePart(i) == calc.a.parts[i] = calc.b.parts[i]
Anonymized == calc.fn = "anonymize_ip" /\ calc.done

\* C8: under the one salt the bucket depends on the truncated prefix only:
\* equal addresses, IPv4 addresses with equal first two octets and IPv6
\* addresses with equal top 32 bits get equal buckets; IPv4 addresses whose
\* first two octets differ get different buckets.
C8_PrefixDeterminesBucket ==
    Anonymized =>
        /\ calc.a = calc.b => calc.ra = calc.rb
        /\ (Both(4) /\ SamePart(1) /\ SamePart(2)) => calc.ra = calc.rb
        /\ (Both(6) /\ SamePart(1) /\ SamePart(2)) => calc.ra = calc.rb
        /\ (Both(4) /\ ~(SamePart(1) /\ SamePart(2))) => calc.ra # calc.rb

\* two different IPv6 addresses with the same top 32 bits have been anonymized
C8_Witness ==
    Anonymized /\ calc.a # calc.b /\ Both(6) /\ SamePart(1) /\ SamePart(2)

\* C9 as stated: 203.0.113.5 and 203.0.113.99 get the same bucket, 203.0.114.5
\* gets another one than 203.0.113.5, and IPv4 addresses that differ in their
\* third octet get different buckets.
C9_ThirdOctetSeparates ==
    Anonymized =>
        /\ (calc.a = Dotted(203, 0, 113, 5) /\ calc.b = Dotted(203, 0, 113, 99))
              => calc.ra = calc.rb
        /\ (calc.a = Dotted(203, 0, 113, 5) /\ calc.b = Dotted(203, 0, 114, 5))
              => calc.ra # calc.rb
        /\ (Both(4) /\ ~SamePart(3)) => calc.ra # calc.rb

\* C9 amended: 203.0.113.5, 203.0.113.99 and 203.0.114.5 all get the same
\* bucket, and IPv4 addresses that differ in their third octet but agree on
\* the first two get the same bucket.
C9_ThirdOctetIgnored ==
    Anonymized =>
        /\ (calc.a = Dotted(203, 0, 113, 5)
              /\ calc.b \in {Dotted(203, 0, 113, 99), Dotted(203, 0, 114, 5)})
              => calc.ra = calc.rb
        /\ (Both(4) /\ SamePart(1) /\ SamePart(2) /\ ~SamePart(3)) => calc.ra = calc.rb

\* 203.0.113.5 and 203.0.114.5 have been anonymized
C9_Witness ==
    Anonymized /\ calc.a = Dotted(203, 0, 113, 5) /\ calc.b = Dotted(203, 0, 114, 5)

Classified == calc.fn = "parse_user_agent" /\ calc.done
Has(tok) == tok \in calc.toks

\* the first matching rule of the fixed order
FirstRule ==
    IF Has("firefox") /\ ~Has("seamonkey") THEN "Firefox"
    ELSE IF Has("chrome") /\ ~Has("chromium") /\ ~Has("edg") THEN "Chrome"
    ELSE IF Has("safari") /\ ~Has("chrome") THEN "Safari"
    ELSE IF Has("edg") THEN "Edge"
    ELSE IF Has("chromium") THEN "Chromium"
    ELSE "Other"

\* C10 as stated: the browser is the first matching rule, in any letter case;
\* with "chrome" and "safari" and neither "edg" nor "firefox" it is Chrome;
\* with "edg", "chrome" and "safari" (and no Firefox match) it is Edge.
C10_RuleOrderAsStated ==
    Classified =>
        /\ calc.browser = FirstRule
        /\ (Has("chrome") /\ Has("safari") /\ ~Has("edg") /\ ~Has("firefox"))
              => calc.browser = "Chrome"
        /\ (Has("edg") /\ Has("chrome") /\ Has("safari") /\ ~Has("firefox"))
              => calc.browser = "Edge"

\* C10 amended: the browser is the first matching rule, in any letter case;
\* with "chrome" and "safari" and none of "edg", "firefox", "chromium" it is
\* Chrome, with "chrome" and "safari" it is never Safari; with "edg", "chrome"
\* and "safari" (and no Firefox match) it is Edge.
C10_RuleOrder ==
    Classified =>
        /\ calc.browser = FirstRule
        /\ (Has("chrome") /\ Has("safari") /\ ~Has("edg") /\ ~Has("firefox")
              /\ ~Has("chromium")) => calc.browser = "Chrome"
        /\ (Has("chrome") /\ Has("safari")) => calc.browser # "Safari"
        /\ (Has("edg") /\ Has("chrome") /\ Has("safari") /\ ~Has("firefox"))
              => calc.browser = "Edge"

\* an upper-case user agent with "chrome", "chromium" and "safari" has been classified
C10_Witness ==
    Classified /\ calc.style = "upper" /\ calc.toks = {"chrome", "chromium", "safari"}

\* the (event_type, target) group of the checkout event
CheckoutKey == <<"buy_checkout", "Item A">>
IsCheckout(r) == r.event_type = "buy_checkout" /\ r.target = "Item A"

\* a POST to /event carrying the checkout body, from a client whose address
\* the country lookup resolves to CH, is being handled
CheckoutPostStep ==
    /\ HandlerStep("event_post")
    /\ req'.body = BodyJson(CheckoutObj)
    /\ ~request_fingerprint(req'.hdr, geoip_reader, geoFile).raised
    /\ request_fingerprint(req'.hdr, geoip_reader, geoFile).country = "CH"

\* exactly one new event is stored, with the three values, country CH and a
\* v4:/v6: bucket
CheckoutStored ==
    /\ resp'.status = 200
    /\ pageviews' = pageviews
    /\ events \subseteq events'
    /\ Cardinality(events' \ events) = 1
    /\ \A r \in events' \ events :
          /\ r.event_type = "buy_checkout" /\ r.target = "Item A" /\ r.page_path = "/shop"
          /\ r.country = "CH"
          /\ r.ip_bucket # "invalid" /\ BucketShape(r.ip_bucket)

\* the dashboard is being served while exactly one checkout event is stored
\* and that event is at most 30 days old
OneCheckoutStatsStep ==
    /\ HandlerStep("stats")
    /\ resp'.status = 200
    /\ Cardinality({r \in events : IsCheckout(r)}) = 1
    /\ \A r \in events : IsCheckout(r) => Age(r) <= WindowDays * TicksPerDay

CheckoutReported == \E i \in DOMAIN resp'.recent_events :
                        resp'.recent_events[i] = [key |-> CheckoutKey, n |-> 1]

\* C11 as stated: the checkout POST stores exactly one event with the posted
\* values, country CH and a v4:/v6: bucket; the event is still stored at any
\* later request made within 30 days; and a /stats request with the right
\* token made then, with no other event of that (type, target), reports the
\* group with count 1.
C11_EventThenStatsAsStated ==
    [][/\ CheckoutPostStep => CheckoutStored
       /\ \A r \in events :
             (IsCheckout(r) /\ Age(r) <= WindowDays * TicksPerDay) => r \in events'
       /\ OneCheckoutStatsStep => CheckoutReported]_vars

\* C11 amended: the checkout POST stores exactly one event with the posted
\* values, country CH and a v4:/v6: bucket; the event is still stored at any
\* later request made within 30 days and within the retention window; and a
\* /stats request with the right token made then, with no other event of that
\* (type, target) and at most 50 event groups in the window, reports the group
\* with count 1.
C11_EventThenStats ==
    [][/\ CheckoutPostStep => CheckoutStored
       /\ \A r \in events :
             (IsCheckout(r) /\ Age(r) <= WindowDays * TicksPerDay
                /\ Age(r) <= retentionDays * TicksPerDay) => r \in events'
       /\ (OneCheckoutStatsStep
             /\ Cardinality(GroupCount(InWindow(events, now), "event")) <= RowLimit)
            => CheckoutReported]_vars

\* the dashboard has reported the checkout group with count 1 for an event
\* from a CH address posted at an earlier time
C11_Witness ==
    /\ req.phase = "done" /\ req.kind = "stats" /\ resp.status = 200
    /\ \E r \in events : IsCheckout(r) /\ r.country = "CH" /\ TsTicks(r.ts) < now
    /\ \E i \in DOMAIN resp.recent_events :
          resp.recent_events[i] = [key |-> CheckoutKey, n |-> 1]

\* the records whose timestamp is at or after now - 30 days
Within30Days(rows) == {r \in rows : Age(r) <= WindowDays * TicksPerDay}

\* how many of the records within 30 days have the key
CountWithin(rows, by, key) == Cardinality({r \in Within30Days(rows) : KeyOf(r, by) = key})

DashServed == req.phase = "done" /\ req.kind = "stats" /\ resp.status = 200

\* no stored record lies on the day of the window's start before the window's
\* start: the window the queries select is the window of the last 30 days
WindowIsExact ==
    /\ InWindow(pageviews, now) = Within30Days(pageviews)
    /\ InWindow(events, now) = Within30Days(events)

\* C12: the total page-views of the dashboard is the number of pageviews in
\* the 30-day window, for any number of distinct paths (stated for a store
\* in which the selected window is the window of the last 30 days).
C12_TotalIsAllViews ==
    (DashServed /\ WindowIsExact) =>
        resp.total_views_30d = Cardinality(Within30Days(pageviews))

NonIncreasing(s) == \A i, j \in DOMAIN s : i < j => s[i].n >= s[j].n

\* the value is a key of greatest count among the records within 30 days, or
\* the placeholder exactly when there is no such record
IsTopOf(value, rows, by) ==
    IF Within30Days(rows) = {} THEN value = "-"
    ELSE /\ \E r \in Within30Days(rows) : KeyOf(r, by) = value
         /\ \A r \in Within30Days(rows) :
               CountWithin(rows, by, value) >= CountWithin(rows, by, KeyOf(r, by))

\* C13: the top-paths result has at most 50 rows in non-increasing order of
\* count, the top page is a path of greatest count in the 30-day window (the
\* placeholder exactly when the window holds no pageview), and likewise the
\* top country.
C13_TopOfWindow ==
    DashServed =>
        /\ Len(resp.recent_paths) <= RowLimit
        /\ NonIncreasing(resp.recent_paths)
        /\ NonIncreasing(resp.recent_countries)
        /\ IsTopOf(resp.top_page, pageviews, "path")
        /\ IsTopOf(resp.top_country, pageviews, "country")

\* C14: when no record falls in the 30-day window, the dashboard is served
\* with both totals 0, the placeholder as top page and top country, and a
\* sparkline without points whose last value is 0.
C14_EmptyWindow ==
    (req.phase = "done" /\ req.kind = "stats" /\ req.token = DASH_TOKEN
        /\ Within30Days(pageviews) = {} /\ Within30Days(events) = {}) =>
        /\ resp.status = 200
        /\ resp.total_views_30d = 0
        /\ resp.total_events_30d = 0
        /\ resp.top_page = "-"
        /\ resp.top_country = "-"
        /\ resp.spark.xs = <<>> /\ resp.spark.ys = <<>>
        /\ resp.spark_last = 0

\* every listed group counts exactly the records within 30 days with its key
ExactCounts(listed, rows, by) ==
    \A i \in DOMAIN listed : listed[i].n = CountWithin(rows, by, listed[i].key)

\* every key of a record within 30 days is listed
AllListed(listed, rows, by) ==
    \A r \in Within30Days(rows) : \E i \in DOMAIN listed : listed[i].key = KeyOf(r, by)

\* C19: every aggregate of the dashboard counts exactly the records at or
\* after now - 30 days: an older record is counted in none of them and, with
\* a retention window of at least 30 days, every record at most 30 days old
\* is counted (in the aggregates without a row cap: in a listed group).
C19_WindowIsLast30Days ==
    DashServed =>
        /\ ExactCounts(resp.recent_paths, pageviews, "path")
        /\ ExactCounts(resp.recent_referrers,
                       {r \in pageviews : r.referrer # None}, "referrer")
        /\ ExactCounts(resp.recent_countries, pageviews, "country")
        /\ ExactCounts(resp.recent_agents, pageviews, "agent")
        /\ ExactCounts(resp.recent_events, events, "event")
        /\ ExactCounts(resp.day_points, pageviews, "day")
        /\ retentionDays >= WindowDays =>
              /\ AllListed(resp.recent_countries, pageviews, "country")
              /\ AllListed(resp.recent_agents, pageviews, "agent")
              /\ AllListed(resp.day_points, pageviews, "day")

\* order and equality of two coordinates num/den (den > 0)
FracLeq(a, b) == a.num * b.den <= b.num * a.den
FracEq(a, b) == a.num * b.den = b.num * a.den
Whole(k) == [num |-> k, den |-> 1]

Drawn == calc.fn = "build_sparkline" /\ calc.done

\* C15: for a non-empty daily series the sparkline has one point per day, laid
\* out left to right in day order; its last value is the count of the last
\* day; equal counts have equal y; a larger count never has a larger y; every
\* y lies in [2, height - 2]; a constant series lies at y = height - 2; and
\* the counts [2,5,5] give last value 5 and the same y for the middle and the
\* last point.
C15_SparklineShape ==
    Drawn =>
        LET pts == calc.points
            xs  == calc.spark.xs
            ys  == calc.spark.ys
        IN  /\ Len(xs) = Len(pts) /\ Len(ys) = Len(pts)
            /\ \A i, j \in DOMAIN pts : i < j => FracLeq(xs[i], xs[j]) /\ ~FracEq(xs[i], xs[j])
            /\ calc.spark.last_count = pts[Len(pts)].n
            /\ \A i, j \in DOMAIN pts :
                  /\ pts[i].n = pts[j].n => FracEq(ys[i], ys[j])
                  /\ pts[i].n > pts[j].n => FracLeq(ys[i], ys[j])
            /\ \A i \in DOMAIN pts :
                  FracLeq(Whole(2), ys[i]) /\ FracLeq(ys[i], Whole(SparkHeight - 2))
            /\ (\A i, j \in DOMAIN pts : pts[i].n = pts[j].n)
                  => \A i \in DOMAIN pts : FracEq(ys[i], Whole(SparkHeight - 2))
            /\ (Len(pts) = 3 /\ pts[1].n = 2 /\ pts[2].n = 5 /\ pts[3].n = 5)
                  => calc.spark.last_count = 5 /\ FracEq(ys[2], ys[3])

\* the sparkline of the counts [2,5,5] has been drawn
C15_Witness ==
    /\ Drawn
    /\ Len(calc.points) = 3
    /\ calc.points[1].n = 2 /\ calc.points[2].n = 5 /\ calc.points[3].n = 5
    /\ ~FracEq(calc.spark.ys[1], calc.spark.ys[2])

\* ensure_columns has just run in a request
EnsureStep == req.phase = "received" /\ req'.phase # "received"

\* C16: from any starting schema one run of ensure_columns ends without error
\* and leaves both tables with every expected column; a run on the result
\* changes nothing and raises nothing; no run drops a column of an existing
\* table; and no run changes or removes a stored record.
C16_EnsureIdempotent ==
    [][EnsureStep =>
        /\ req'.phase = "ensured"
        /\ SchemaComplete(schema')
        /\ ensure_columns(schema') = schema' /\ ~ensure_columns_raised(schema')
        /\ SchemaComplete(schema) => schema' = schema
        /\ \A t \in Tables : schema[t].exists => schema[t].cols \subseteq schema'[t].cols
        /\ pageviews' = pageviews /\ events' = events]_vars

\* a second request has run ensure_columns on a database whose pageviews
\* table first lacked the country column and holds a record written then
C16_Witness ==
    /\ req.phase = "ensured" /\ resp.status = 0
    /\ SchemaComplete(schema)
    /\ \E r \in pageviews : r.country = None /\ r.path = "/shop"

\* what the country lookup is to return for an address: UNK without a usable
\* database, for an empty address and for a failed lookup, else the country
\* code, falling back to the registered-country code
ExpectedCountry(raw) ==
    IF geoFile # "good" \/ raw.form \in {"none", "empty"} \/ ip_address(raw) = 0
       \/ ~GeoEntry(raw).found
    THEN "UNK"
    ELSE IF GeoEntry(raw).iso # None THEN GeoEntry(raw).iso
    ELSE IF GeoEntry(raw).registered # None THEN GeoEntry(raw).registered
    ELSE "UNK"

\* C17: the country lookup never fails an ingestion request: a beacon, and a
\* POST to /event with an object (or no) body, end in success with the record
\* stored under the expected country, UNK when the database file is absent or
\* cannot be opened.
C17_LookupNeverFails ==
    /\ (req.phase = "done" /\ req.kind = "pixel") =>
          /\ resp.status = 200
          /\ \E r \in pageviews : r.id = pvSeq /\ r.country = ExpectedCountry(SrcIp(req.hdr))
    /\ (req.phase = "done" /\ req.kind = "event_post" /\ ~EventFields(req.body).raised) =>
          /\ resp.status = 200
          /\ \E r \in events : r.id = evSeq /\ r.country = ExpectedCountry(SrcIp(req.hdr))

\* C18: when two requests run ensure_columns concurrently against tables that
\* lack an expected column, under every interleaving of their probe and add
\* steps neither ends in a duplicate-column error, and once both have
\* returned the tables have every expected column.
C18_NoDuplicateColumnError ==
    calc.fn = "ensure_columns" =>
        /\ \A w \in Workers : calc.at[w].pc # "failed"
        /\ (\A w \in Workers : calc.at[w].pc = "returned") => SchemaComplete(schema)

====
